---- MODULE Spec2Model ----
(***************************************************************************)
(* novavm-server: the document generation handlers.                        *)
(*                                                                         *)
(* Three request handlers are modelled, one per express application of     *)
(* the repository:                                                         *)
(*   "PostRoot"     app.post('/')             src/unnamed/part_000:144-178 *)
(*                  with createFilledPDF      src/unnamed/part_000:54-142  *)
(*   "SubmitV1"     app.post('/agent/submit') src/unnamed/part_000:343-389 *)
(*                  with generateArticlesDocument / generateEINDocument    *)
(*   "SubmitMock"   app.post('/agent/submit') src/server.js:239-294        *)
(*                  with generateMockPDF      src/server.js:210-236        *)
(*                                                                         *)
(* A handler is an async function: one action is the code that runs from   *)
(* one await to the next.  The template host and the PDF library are the   *)
(* environment: the host's answer is drawn when the fetch is issued, and   *)
(* whether a library call throws is drawn when the call is made.           *)
(***************************************************************************)
EXTENDS Integers, Sequences, FiniteSets, TLC

VARIABLES
    handler,      \* the handler serving the current request ("none" when idle)
    intake,       \* the request's business data (req.body / req.body.intake)
    pc,           \* the handler's position: the await it is suspended at
    form,         \* the form whose document is being produced
    fetchOutcome, \* per form: what the template host does with the fetch
    fetches,      \* per form: number of fetch() calls issued in this request
    tplThrew,     \* per form: the template-branch call that threw, or "none"
    synThrew,     \* per form: the from-scratch call that threw, or "none"
    trace,        \* per form: the stages entered, in order
    documents,    \* results.documents as built so far (in memory)
    resp,         \* the response written with res.json, status 0 = none yet
    nreq,         \* requests received so far
    lay,          \* the row loop of a generated document (layout runs only)
    prev,         \* an earlier request of this process, with its response
    adminKey,     \* process.env.NOVAVM_ADMIN_KEY ("unset" when undefined)
    gate          \* the last request through the middleware chain: the
                  \* application, method, path, Authorization header, and
                  \* where the chain sent it

vars == <<handler, intake, pc, form, fetchOutcome, fetches, tplThrew, synThrew,
          trace, documents, resp, nreq, lay, prev, adminKey, gate>>

(* ------------------------------ bounds -------------------------------- *)

MaxRequests == 3

MaxRows == 40

(* ------------------------------ values -------------------------------- *)

Forms == {"ss4", "articles"}

Handlers == {"PostRoot", "SubmitV1", "SubmitMock"}

\* What the template host can do with one fetch: a 2xx response, another
\* status, a refused or broken connection, a socket-level timeout error, or
\* no answer at all.
FetchOutcomes == {"ok", "non2xx", "neterror", "timeout", "hang"}

TplSteps == <<"tpl_body", "tpl_load", "tpl_font", "tpl_draw", "tpl_save">>

SynSteps == <<"syn_create", "syn_font", "syn_draw", "syn_save">>

\* Business data: the name and the entity type may be absent ("none").
PresentIntakes ==
    [present : {TRUE}, name : {"none", "Acme"}, etype : {"none", "LLC", "Corp"},
     state : {"CA", "NY"}]

NoIntake == [present |-> FALSE, name |-> "none", etype |-> "none", state |-> "NY"]

Intakes == PresentIntakes \cup {NoIntake}

NoDoc ==
    [kind |-> "absent", mime |-> "none", base |-> "none", complete |-> FALSE,
     pages |-> 0, rows |-> <<>>]

NoDocs == [f \in Forms |-> NoDoc]

NoResp ==
    [status |-> 0, ok |-> FALSE, hasDocuments |-> FALSE, documents |-> NoDocs,
     error |-> "none"]

NoneOf == [f \in Forms |-> "none"]

ZeroOf == [f \in Forms |-> 0]

EmptyTraces == [f \in Forms |-> <<>>]

NoPrev == [handler |-> "none", intake |-> NoIntake, resp |-> NoResp]

LayIdle == [fn |-> "none", n |-> 0, i |-> 0, y |-> 0, pages |-> 0, placed |-> <<>>]

(* ------------------- the row loops of part_000 ------------------------ *)

\* let yPosition = 750; and the y a new page would restart at
TopY == 750

\* yPosition after the two header lines: 750 - 30 - 40
RowStartY == TopY - 30 - 40

\* if (yPosition < 100)
MinMargin == 100

\* const lineHeight = 20;
LineHeight == 20

\* yPosition -= lineHeight * 0.8
EINLineHeight == (LineHeight * 8) \div 10

\* the sections array literal has 8 entries, the formFields literal 23
ArticlesRows == 8

EINRows == 23

LayStart(fn, n) ==
    [fn |-> fn, n |-> n, i |-> 0, y |-> RowStartY, pages |-> 1, placed |-> <<>>]

\* One iteration of sections.forEach in generateArticlesDocument: below the
\* margin a page is added and y restarts at the top, and the row is drawn
\* with page.drawText, page being the first page of the document.
ArticlesRow(st) ==
    LET over == st.y < MinMargin
        y0 == IF over THEN TopY ELSE st.y
        pg == IF over THEN st.pages + 1 ELSE st.pages
    IN  [st EXCEPT !.i = st.i + 1,
                   !.pages = pg,
                   !.placed = Append(st.placed, [row |-> st.i + 1, page |-> 1, y |-> y0]),
                   !.y = y0 - LineHeight]

\* One iteration of formFields.forEach in generateEINDocument: below the
\* margin y is set to the margin; no page is added.
EINRow(st) ==
    LET y0 == IF st.y < MinMargin THEN MinMargin ELSE st.y
    IN  [st EXCEPT !.i = st.i + 1,
                   !.placed = Append(st.placed, [row |-> st.i + 1, page |-> 1, y |-> y0]),
                   !.y = y0 - EINLineHeight]

RowStep(st) == IF st.fn = "articles" THEN ArticlesRow(st) ELSE EINRow(st)

RECURSIVE RowLoop(_)
RowLoop(st) == IF st.i >= st.n THEN st ELSE RowLoop(RowStep(st))

(* ------------------- the labeled rows of the documents ---------------- *)

\* A row of a generated document: the intake keys its value is read from,
\* tried in order with ||, and whether the chain ends in a literal or a
\* computed text (so that the value is never empty).
Row(keys, dflt) == [keys |-> keys, dflt |-> dflt]

\* The intake fields the model carries; every other key is absent.
HasKey(in, k) == k \in {"name", "etype", "state"} /\ in[k] # "none"

\* The value the code computes for a row is a non-empty text.
RowHasValue(r, in) == r.dflt \/ \E k \in r.keys : HasKey(in, k)

\* const info = [...] of createFilledPDF, with the SS-4's extra row
InfoRows(f) ==
    << Row({"name", "LLC_NAME"}, FALSE),
       Row({"BUSINESS_ADDRESS"}, FALSE),
       Row({"MAILING_ADDRESS"}, FALSE),
       Row({"state"}, FALSE),
       Row({"etype"}, FALSE),
       Row({"RESPONSIBLE_PARTY_NAME", "ORGANIZER_NAME"}, FALSE),
       Row({"DATE"}, TRUE) >>
    \o (IF f = "ss4" THEN << Row({"REASON"}, TRUE) >> ELSE << >>)

\* const sections = [...] of generateArticlesDocument
Sections ==
    << Row({"name"}, FALSE),
       Row({"etype"}, FALSE),
       Row({"state"}, FALSE),
       Row({"principal_address", "business_address"}, TRUE),
       Row({"registered_agent_name", "responsible_party_name"}, TRUE),
       Row({"business_purpose"}, TRUE),
       Row({}, TRUE),
       Row({"etype"}, TRUE) >>

\* const formFields = [...] of generateEINDocument
FormFields ==
    << Row({"name"}, FALSE),
       Row({"trade_name", "name"}, FALSE),
       Row({}, TRUE),
       Row({"mailing_address", "principal_address", "business_address"}, FALSE),
       Row({"city", "state", "zip_code"}, FALSE),
       Row({"principal_address", "business_address"}, FALSE),
       Row({"city", "state", "zip_code"}, FALSE),
       Row({"county", "state"}, FALSE),
       Row({"responsible_party_name", "owner_name"}, FALSE),
       Row({"responsible_party_ssn"}, TRUE),
       Row({"etype"}, TRUE),
       Row({"member_count"}, TRUE),
       Row({"etype"}, FALSE),
       Row({"etype", "state"}, TRUE),
       Row({}, TRUE),
       Row({"formation_date"}, TRUE),
       Row({}, TRUE),
       Row({"employee_count"}, TRUE),
       Row({}, TRUE),
       Row({"business_purpose"}, TRUE),
       Row({}, TRUE),
       Row({}, TRUE),
       Row({"responsible_party_name", "owner_name"}, FALSE) >>

\* The lines of articlesContent and einContent in server.js
MockRows(f) ==
    IF f = "articles"
    THEN << Row({"name"}, FALSE), Row({"state"}, FALSE), Row({"etype"}, FALSE) >>
    ELSE << Row({"name"}, FALSE), Row({"owner_name"}, TRUE),
            Row({"business_purpose"}, TRUE) >>

\* yPosition where createFilledPDF's first row goes: 750 - 40
InfoStartY == TopY - 40

\* yPosition -= 25 after a drawn row
InfoLineHeight == 25

\* y: 700 and lineHeight: 14 of generateMockPDF's content block
MockStartY == 700

MockLineHeight == 14

\* info.forEach(([label, value]) => { if (value) { draw; yPosition -= 25 } })
InfoPlaced(f, in) ==
    LET rows == InfoRows(f)
        drawn == SelectSeq([i \in 1..Len(rows) |-> i],
                           LAMBDA i : RowHasValue(rows[i], in))
    IN  [k \in 1..Len(drawn) |->
            [row |-> drawn[k], page |-> 1,
             y |-> InfoStartY - (k - 1) * InfoLineHeight]]

\* generateMockPDF draws the whole content text, one line under the other
MockPlaced(f) ==
    [k \in 1..Len(MockRows(f)) |->
        [row |-> k, page |-> 1, y |-> MockStartY - (k - 1) * MockLineHeight]]

(* ---------------------- artifacts and envelopes ----------------------- *)

\* The buffer encoded before save() has finished (a missing await).
OverlaidArtifactUnsaved ==
    [kind |-> "overlaid", mime |-> "application/pdf", base |-> "template",
     complete |-> FALSE, pages |-> 0, rows |-> <<>>]

\* pdfDoc.save() of the loaded template, base64 of the whole buffer
OverlaidArtifact ==
    [kind |-> "overlaid", mime |-> "application/pdf", base |-> "template",
     complete |-> TRUE, pages |-> 0, rows |-> <<>>]

\* pdfDoc.save() of a document made with PDFDocument.create()
SynthesizedArtifact(npages, placed) ==
    [kind |-> "synthesized", mime |-> "application/pdf", base |-> "new",
     complete |-> TRUE, pages |-> npages, rows |-> placed]

\* The document a from-scratch generator returns, per handler and form.
GeneratedArtifact(h, f, in) ==
    IF h = "SubmitV1"
    THEN LET st == RowLoop(IF f = "articles"
                           THEN LayStart("articles", ArticlesRows)
                           ELSE LayStart("ein", EINRows))
         IN  SynthesizedArtifact(st.pages, st.placed)
    ELSE IF h = "PostRoot"
    THEN SynthesizedArtifact(1, InfoPlaced(f, in))
    ELSE SynthesizedArtifact(1, MockPlaced(f))

\* res.json(results) / res.status(200).json(response)
SuccessEnvelope(docs) ==
    [status |-> 200, ok |-> TRUE, hasDocuments |-> TRUE, documents |-> docs,
     error |-> "none"]

\* res.status(s).json({ ok: false, error: ... })
ErrorEnvelope(s, msg) ==
    [status |-> s, ok |-> FALSE, hasDocuments |-> FALSE, documents |-> NoDocs,
     error |-> msg]

(* ------------------------- decisions of the code ---------------------- *)

\* A fetch settled with a non-2xx status treated like a 2xx one (the
\* response.ok test left out).
AfterFetchNoStatusTest(o) == IF o \in {"ok", "non2xx"} THEN "tpl_body" ELSE "syn_create"

\* createFilledPDF after the fetch settles: response.ok enters the template
\* branch; any other status falls out of the if, and a rejected fetch lands
\* in the catch; both continue at the from-scratch document.
AfterFetch(o) == IF o = "ok" THEN "tpl_body" ELSE "syn_create"

\* A catch that goes back to the overlay instead of falling out of the try.
OnTemplateThrowRetry == "tpl_font"

\* catch (error) { console.log(...) } and execution continues after the try
OnTemplateThrow == "syn_create"

\* The template requested twice for one form (a retry of the call).
IssueFetchTwice(cnt, f) == [cnt EXCEPT ![f] = @ + 2]

\* const response = await fetch(templateUrl, ...): the one fetch call of
\* createFilledPDF, counted for the form it is made for.
IssueFetch(cnt, f) == [cnt EXCEPT ![f] = @ + 1]

\* The documents object kept across requests (results hoisted out of the
\* handler), so that a request starts from what the one before left.
SharedResults(left) == left

\* const results = { ok: true, documents: {} } inside the handler: every
\* request starts from an empty object, whatever an earlier request left.
FreshResults(left) == NoDocs

\* if (businessData.ENTITY_TYPE === 'LLC' && businessData.STATE === 'CA')
ArticlesRequested(in) == in.etype = "LLC" /\ in.state = "CA"

\* if (!intake) return res.status(400)
IntakeMissing(in) == ~in.present

\* intake.entity_type.includes('Corp') in generateEINDocument's formFields
TypeErrorAt(h, f, in, step) ==
    h = "SubmitV1" /\ f = "ss4" /\ step = "syn_draw" /\ in.etype = "none"

\* The filename built from a property the intake never has (a misspelt
\* key), so that building the response always throws.
ResponseTypeErrorAlways(h, in) == h = "SubmitV1"

\* intake.business_name.replace(...) while the response object is built
ResponseTypeError(h, in) == h = "SubmitV1" /\ in.name = "none"

NextStep(steps, s) ==
    LET k == CHOOSE j \in 1..Len(steps) : steps[j] = s
    IN  IF k < Len(steps) THEN steps[k + 1] ELSE "return"

InSeq(steps, s) == \E j \in 1..Len(steps) : steps[j] = s

Stage(f, s) == [trace EXCEPT ![f] = Append(@, s)]

\* The stage a position opens: embedding the font starts the overlay on the
\* loaded template, PDFDocument.create() starts the from-scratch document.
StageOnEnter(p) ==
    IF p = "tpl_font" THEN <<"OVERLAY">>
    ELSE IF p = "syn_create" THEN <<"SYNTHESIZE">>
    ELSE <<>>

Enter(f, p) == [trace EXCEPT ![f] = @ \o StageOnEnter(p)]

(* ------------------------- the middleware chain ----------------------- *)

Methods == {"GET", "POST", "OPTIONS"}

Paths == {"/health", "/agent/health", "/", "/agent/submit", "/smartfile"}

\* The configured key: unset (undefined) or a secret.
Keys == {"unset", "k1"}

\* req.headers.authorization: absent, or a text given by its first seven
\* characters and the rest (authHeader.slice(7)).
NoHeader == [head |-> "none", tail |-> "none"]

Headers ==
    {NoHeader} \cup [head : {"Bearer ", "bearer "}, tail : {"k1", "k2", "undefined"}]

Requests == [method : Methods, path : Paths, auth : Headers]

NoGate ==
    [app |-> "none", method |-> "none", path |-> "none", auth |-> NoHeader,
     verdict |-> "none"]

\* req.path === '/health' || req.path === '/agent/health'
IsHealthPath(p) == p \in {"/health", "/agent/health"}

\* The token test without the comparison with the key: any Bearer header
\* passes.
HeaderMatchesAnyToken(h, key) == h # NoHeader /\ h.head = "Bearer "

\* !(!authHeader || !authHeader.startsWith('Bearer ') ||
\*   authHeader.slice(7) !== expectedKey); a text never equals undefined
HeaderMatches(h, key) ==
    /\ h # NoHeader
    /\ h.head = "Bearer "
    /\ key # "unset"
    /\ h.tail = key

\* The applications that install the CORS middleware.
HasCors(app) == app \in {"SubmitV1", "SubmitMock"}

\* The security middleware of the first application of part_000: a request
\* whose header does not match passes only on a health path.
SecurityMiddleware(r, key) ==
    IF ~HeaderMatches(r.auth, key)
    THEN (IF IsHealthPath(r.path) THEN "next" ELSE "401")
    ELSE "next"

\* authenticateRequest of server.js and of the second application of
\* part_000.
AuthenticateRequest(r, key) ==
    IF IsHealthPath(r.path) THEN "next"
    ELSE IF key = "unset" THEN "500"
    ELSE IF ~HeaderMatches(r.auth, key) THEN "401"
    ELSE "next"

\* The routing table behind the middleware: the health probes, the
\* generation handler, the smartfile endpoints, and for anything else the
\* 404 handler (express's own final handler in the first application).
Route(app, r) ==
    IF r.method = "GET" /\ IsHealthPath(r.path) THEN "health"
    ELSE IF app = "PostRoot"
    THEN (IF r.method = "POST" /\ r.path = "/" THEN "generate" ELSE "unmatched")
    ELSE IF r.method = "POST" /\ r.path = "/agent/submit" THEN "generate"
    ELSE IF r.method = "GET" /\ r.path = "/smartfile" THEN "smartfile"
    ELSE "notfound"

\* Where the chain of app.use middleware sends a request.
Verdict(app, r, key) ==
    IF HasCors(app) /\ r.method = "OPTIONS" THEN "cors200"
    ELSE LET a == IF app = "PostRoot" THEN SecurityMiddleware(r, key)
                  ELSE AuthenticateRequest(r, key)
         IN  IF a = "next" THEN Route(app, r) ELSE a

Verdicts == {"cors200", "401", "500", "health", "smartfile", "notfound",
             "unmatched", "generate"}

Through(app, r, v) ==
    [app |-> app, method |-> r.method, path |-> r.path, auth |-> r.auth,
     verdict |-> v]

\* Per application, key and destination: the requests the chain sends there.
ArrivalsTable ==
    [app \in Handlers |-> [key \in Keys |-> [v \in Verdicts |->
        {Through(app, r, v) : r \in {q \in Requests : Verdict(app, q, key) = v}}]]]

\* The requests to an application that the chain sends to v.
Arrivals(app, v) == ArrivalsTable[app][adminKey][v]

(* ------------------------------ the model ----------------------------- *)

Init ==
    /\ handler = "none"
    /\ intake = NoIntake
    /\ pc = "idle"
    /\ form = "ss4"
    /\ fetchOutcome = NoneOf
    /\ fetches = ZeroOf
    /\ tplThrew = NoneOf
    /\ synThrew = NoneOf
    /\ trace = EmptyTraces
    /\ documents = NoDocs
    /\ resp = NoResp
    /\ nreq = 0
    /\ lay = LayIdle
    /\ prev = NoPrev
    /\ adminKey \in Keys
    /\ gate = NoGate

\* The request just answered was served with the template host unavailable
\* (or never asked) and with every library call returning.
StubbedRun ==
    /\ resp.status # 0
    /\ \A f \in Forms :
           /\ fetchOutcome[f] \in {"none", "non2xx", "neterror", "timeout"}
           /\ tplThrew[f] = "none"
           /\ synThrew[f] \in {"none", "TypeError"}

\* What is kept of the requests served so far when the next one arrives:
\* the one already kept, or the one just answered.
Remembered ==
    {prev} \cup (IF StubbedRun
                 THEN {[handler |-> handler, intake |-> intake, resp |-> resp]}
                 ELSE {})

\* The 500 answer of a handler's catch; the handler is over.
Catch500 ==
    /\ resp' = ErrorEnvelope(500, "exception")
    /\ pc' = "idle"

\* app.post('/'): results = { ok: true, documents: {} }, then
\* createFilledPDF(.., 'SS-4') runs up to its await fetch(templateUrl).
PostRootReceive(in, o) ==
    /\ pc = "idle"
    /\ nreq < MaxRequests
    /\ in.present
    /\ gate' \in Arrivals("PostRoot", "generate")
    /\ handler' = "PostRoot"
    /\ intake' = in
    /\ nreq' = nreq + 1
    /\ form' = "ss4"
    /\ fetchOutcome' = [NoneOf EXCEPT !["ss4"] = o]
    /\ fetches' = IssueFetch(ZeroOf, "ss4")
    /\ trace' = [EmptyTraces EXCEPT !["ss4"] = <<"START", "FETCH_TEMPLATE">>]
    /\ tplThrew' = NoneOf
    /\ synThrew' = NoneOf
    /\ documents' = FreshResults(documents)
    /\ resp' = NoResp
    /\ pc' = "cfp_await"
    /\ prev' \in Remembered
    /\ UNCHANGED <<lay, adminKey>>

\* app.post('/agent/submit') without intake: 400, nothing generated.
SubmitReject(h) ==
    /\ pc = "idle"
    /\ nreq < MaxRequests
    /\ h \in {"SubmitV1", "SubmitMock"}
    /\ IntakeMissing(NoIntake)
    /\ gate' \in Arrivals(h, "generate")
    /\ handler' = h
    /\ intake' = NoIntake
    /\ nreq' = nreq + 1
    /\ form' = "ss4"
    /\ fetchOutcome' = NoneOf
    /\ fetches' = ZeroOf
    /\ trace' = EmptyTraces
    /\ tplThrew' = NoneOf
    /\ synThrew' = NoneOf
    /\ documents' = FreshResults(documents)
    /\ resp' = ErrorEnvelope(400, "Missing intake data")
    /\ pc' = "idle"
    /\ prev' \in Remembered
    /\ UNCHANGED <<lay, adminKey>>

\* app.post('/agent/submit') with an intake: the Articles generator runs up
\* to its first await (PDFDocument.create()).
SubmitReceive(h, in) ==
    /\ pc = "idle"
    /\ nreq < MaxRequests
    /\ h \in {"SubmitV1", "SubmitMock"}
    /\ ~IntakeMissing(in)
    /\ gate' \in Arrivals(h, "generate")
    /\ handler' = h
    /\ intake' = in
    /\ nreq' = nreq + 1
    /\ form' = "articles"
    /\ fetchOutcome' = NoneOf
    /\ fetches' = ZeroOf
    /\ trace' = [EmptyTraces EXCEPT !["articles"] = <<"START", "SYNTHESIZE">>]
    /\ tplThrew' = NoneOf
    /\ synThrew' = NoneOf
    /\ documents' = FreshResults(documents)
    /\ resp' = NoResp
    /\ pc' = "syn_create"
    /\ prev' \in Remembered
    /\ UNCHANGED <<lay, adminKey>>

\* await fetch(templateUrl, { headers }) settles.  No timeout and no abort
\* signal is passed: a host that never answers never settles it.
FetchSettle ==
    /\ pc = "cfp_await"
    /\ fetchOutcome[form] # "hang"
    /\ pc' = AfterFetch(fetchOutcome[form])
    /\ trace' = Enter(form, AfterFetch(fetchOutcome[form]))
    /\ UNCHANGED <<handler, intake, form, fetchOutcome, fetches, tplThrew,
                   synThrew, documents, resp, nreq, lay, prev, adminKey, gate>>

\* A call of the template branch succeeds: arrayBuffer, PDFDocument.load,
\* embedFont, the drawText overlays.
TplAdvance ==
    /\ InSeq(TplSteps, pc)
    /\ pc # "tpl_save"
    /\ pc' = NextStep(TplSteps, pc)
    /\ trace' = Enter(form, NextStep(TplSteps, pc))
    /\ UNCHANGED <<handler, intake, form, fetchOutcome, fetches, tplThrew,
                   synThrew, documents, resp, nreq, lay, prev, adminKey, gate>>

\* A call of the template branch throws: the catch logs it and
\* createFilledPDF goes on with the from-scratch document.
TplThrow ==
    /\ InSeq(TplSteps, pc)
    /\ tplThrew' = [tplThrew EXCEPT ![form] = pc]
    /\ pc' = OnTemplateThrow
    /\ trace' = Enter(form, OnTemplateThrow)
    /\ UNCHANGED <<handler, intake, form, fetchOutcome, fetches, synThrew,
                   documents, resp, nreq, lay, prev, adminKey, gate>>

\* A call of a from-scratch generator succeeds: create/addPage, embedFont,
\* the drawText calls.
SynAdvance ==
    /\ InSeq(SynSteps, pc)
    /\ pc # "syn_save"
    /\ ~TypeErrorAt(handler, form, intake, pc)
    /\ pc' = NextStep(SynSteps, pc)
    /\ UNCHANGED <<handler, intake, form, fetchOutcome, fetches, tplThrew,
                   synThrew, trace, documents, resp, nreq, lay, prev, adminKey, gate>>

\* A library call of a from-scratch generator throws: nothing catches it
\* before the handler's catch, which answers 500.
SynThrow ==
    /\ InSeq(SynSteps, pc)
    /\ synThrew' = [synThrew EXCEPT ![form] = pc]
    /\ trace' = Stage(form, "FAILED")
    /\ Catch500
    /\ UNCHANGED <<handler, intake, form, fetchOutcome, fetches, tplThrew,
                   documents, nreq, lay, prev, adminKey, gate>>

\* generateEINDocument reads intake.entity_type.includes of an absent
\* entity type: TypeError, rethrown, answered 500.
SynTypeError ==
    /\ InSeq(SynSteps, pc)
    /\ TypeErrorAt(handler, form, intake, pc)
    /\ synThrew' = [synThrew EXCEPT ![form] = "TypeError"]
    /\ trace' = Stage(form, "FAILED")
    /\ Catch500
    /\ UNCHANGED <<handler, intake, form, fetchOutcome, fetches, tplThrew,
                   documents, nreq, lay, prev, adminKey, gate>>

\* The artifact the pending save() returns.
Saved ==
    IF pc = "tpl_save" THEN OverlaidArtifact
    ELSE GeneratedArtifact(handler, form, intake)

SaveResolves == pc \in {"tpl_save", "syn_save"}

DoneStage == IF pc = "tpl_save" THEN "DONE_OVERLAID" ELSE "DONE_SYNTHESIZED"

\* app.post('/'): the SS-4 is stored and createFilledPDF(.., 'CA-Articles')
\* runs up to its await fetch.
ReturnStartArticles(o) ==
    /\ SaveResolves
    /\ handler = "PostRoot"
    /\ form = "ss4"
    /\ ArticlesRequested(intake)
    /\ documents' = [documents EXCEPT ![form] = Saved]
    /\ form' = "articles"
    /\ fetchOutcome' = [fetchOutcome EXCEPT !["articles"] = o]
    /\ fetches' = IssueFetch(fetches, "articles")
    /\ trace' = [Stage(form, DoneStage) EXCEPT
                    !["articles"] = <<"START", "FETCH_TEMPLATE">>]
    /\ pc' = "cfp_await"
    /\ UNCHANGED <<handler, intake, tplThrew, synThrew, resp, nreq, lay, prev, adminKey, gate>>

\* app.post('/'): the last document is stored and res.json(results) is sent.
ReturnRespondRoot ==
    /\ SaveResolves
    /\ handler = "PostRoot"
    /\ ~(form = "ss4" /\ ArticlesRequested(intake))
    /\ documents' = [documents EXCEPT ![form] = Saved]
    /\ trace' = Stage(form, DoneStage)
    /\ resp' = SuccessEnvelope([documents EXCEPT ![form] = Saved])
    /\ pc' = "idle"
    /\ UNCHANGED <<handler, intake, form, fetchOutcome, fetches, tplThrew,
                   synThrew, nreq, lay, prev, adminKey, gate>>

\* app.post('/agent/submit'): the Articles document is kept and the EIN
\* generator runs up to its first await.
ReturnStartEIN ==
    /\ SaveResolves
    /\ handler \in {"SubmitV1", "SubmitMock"}
    /\ form = "articles"
    /\ documents' = [documents EXCEPT ![form] = Saved]
    /\ form' = "ss4"
    /\ trace' = [Stage(form, DoneStage) EXCEPT !["ss4"] = <<"START", "SYNTHESIZE">>]
    /\ pc' = "syn_create"
    /\ UNCHANGED <<handler, intake, fetchOutcome, fetches, tplThrew, synThrew,
                   resp, nreq, lay, prev, adminKey, gate>>

\* app.post('/agent/submit'): the response object is built and sent; in
\* part_000 building it calls intake.business_name.replace.
ReturnRespondSubmit ==
    /\ SaveResolves
    /\ handler \in {"SubmitV1", "SubmitMock"}
    /\ form = "ss4"
    /\ documents' = [documents EXCEPT ![form] = Saved]
    /\ trace' = Stage(form, DoneStage)
    /\ resp' = IF ResponseTypeError(handler, intake)
               THEN ErrorEnvelope(500, "exception")
               ELSE SuccessEnvelope([documents EXCEPT ![form] = Saved])
    /\ pc' = "idle"
    /\ UNCHANGED <<handler, intake, form, fetchOutcome, fetches, tplThrew,
                   synThrew, nreq, lay, prev, adminKey, gate>>

Next ==
    \/ \E in \in PresentIntakes, o \in FetchOutcomes : PostRootReceive(in, o)
    \/ \E h \in Handlers : SubmitReject(h)
    \/ \E h \in Handlers, in \in PresentIntakes : SubmitReceive(h, in)
    \/ FetchSettle
    \/ TplAdvance
    \/ TplThrow
    \/ SynAdvance
    \/ SynThrow
    \/ SynTypeError
    \/ \E o \in FetchOutcomes : ReturnStartArticles(o)
    \/ ReturnRespondRoot
    \/ ReturnStartEIN
    \/ ReturnRespondSubmit

Spec == Init /\ [][Next]_vars

(* ------------------ the middleware chain on any request ---------------- *)

InitGate ==
    /\ handler = "none"
    /\ intake = NoIntake
    /\ pc = "idle"
    /\ form = "ss4"
    /\ fetchOutcome = NoneOf
    /\ fetches = ZeroOf
    /\ tplThrew = NoneOf
    /\ synThrew = NoneOf
    /\ trace = EmptyTraces
    /\ documents = NoDocs
    /\ resp = NoResp
    /\ nreq = 0
    /\ lay = LayIdle
    /\ prev = NoPrev
    /\ adminKey \in Keys
    /\ gate = NoGate

\* One request goes through the app.use chain of an application and is
\* answered there or handed to the route it matches.
Admit(app, v) ==
    /\ nreq < MaxRequests
    /\ gate' \in Arrivals(app, v)
    /\ nreq' = nreq + 1
    /\ UNCHANGED <<handler, intake, pc, form, fetchOutcome, fetches, tplThrew,
                   synThrew, trace, documents, resp, lay, prev, adminKey>>

NextGate == \E app \in Handlers, v \in Verdicts : Admit(app, v)

SpecGate == InitGate /\ [][NextGate]_vars

(* ----------------- the row loops on any number of rows ----------------- *)

LayoutFns == {"articles", "ein"}

InitLayout ==
    /\ handler = "none"
    /\ intake = NoIntake
    /\ pc = "idle"
    /\ form = "ss4"
    /\ fetchOutcome = NoneOf
    /\ fetches = ZeroOf
    /\ tplThrew = NoneOf
    /\ synThrew = NoneOf
    /\ trace = EmptyTraces
    /\ documents = NoDocs
    /\ resp = NoResp
    /\ nreq = 0
    /\ prev = NoPrev
    /\ adminKey = "unset"
    /\ gate = NoGate
    /\ lay \in {LayStart(fn, n) : fn \in LayoutFns, n \in 0..MaxRows}

\* One forEach iteration of the row loop.
LayoutRow ==
    /\ lay.fn \in LayoutFns
    /\ lay.i < lay.n
    /\ lay' = RowStep(lay)
    /\ UNCHANGED <<handler, intake, pc, form, fetchOutcome, fetches, tplThrew,
                   synThrew, trace, documents, resp, nreq, prev, adminKey, gate>>

NextLayout == LayoutRow

SpecLayout == InitLayout /\ [][NextLayout]_vars

(* ------------------------------ claims -------------------------------- *)

Responded == resp.status # 0

Stages(f) == {trace[f][k] : k \in 1..Len(trace[f])}

IsPrefix(a, b) == Len(a) <= Len(b) /\ \A k \in 1..Len(a) : a[k] = b[k]

\* The runs of the pipeline as the design's state machine gives them.
DesignRuns ==
    { <<"START", "FETCH_TEMPLATE", "POPULATE_FIELDS", "DONE_FILLED">>,
      <<"START", "FETCH_TEMPLATE", "POPULATE_FIELDS", "OVERLAY", "DONE_OVERLAID">>,
      <<"START", "FETCH_TEMPLATE", "SYNTHESIZE", "DONE_SYNTHESIZED">> }

\* The runs of createFilledPDF.
CodeRuns ==
    { <<"START", "FETCH_TEMPLATE", "OVERLAY", "DONE_OVERLAID">>,
      <<"START", "FETCH_TEMPLATE", "OVERLAY", "SYNTHESIZE", "DONE_SYNTHESIZED">>,
      <<"START", "FETCH_TEMPLATE", "OVERLAY", "SYNTHESIZE", "FAILED">>,
      <<"START", "FETCH_TEMPLATE", "SYNTHESIZE", "DONE_SYNTHESIZED">>,
      <<"START", "FETCH_TEMPLATE", "SYNTHESIZE", "FAILED">> }

C2_OverlayNeverSynthesized ==
    handler = "PostRoot" =>
        \A f \in Forms :
            "OVERLAY" \in Stages(f) =>
                /\ "SYNTHESIZE" \notin Stages(f)
                /\ documents[f].kind \in {"absent", "overlaid"}
                /\ fetches[f] = 1

Unavailable == {"non2xx", "neterror", "timeout"}

FetchSettled(f) == fetchOutcome[f] # "none" /\ ~(form = f /\ pc = "cfp_await")

\* C3: whenever the fetch of a form settles as unavailable (non-2xx status,
\* network error, or a timeout error of the socket), createFilledPDF does
\* not throw because of it: the next stage is SYNTHESIZE, the template
\* branch is never entered, a response with ok true holds the form's
\* synthesized document, and a response has ok false only if a synthesizer
\* call threw.
C3_UnavailableSynthesizes ==
    handler = "PostRoot" =>
        \A f \in Forms :
            (fetchOutcome[f] \in Unavailable /\ FetchSettled(f)) =>
                /\ Len(trace[f]) >= 3
                /\ trace[f][3] = "SYNTHESIZE"
                /\ "OVERLAY" \notin Stages(f)
                /\ tplThrew[f] = "none"
                /\ (Responded /\ resp.ok) =>
                       /\ resp.documents[f].kind = "synthesized"
                       /\ resp.documents[f].complete
                /\ (Responded /\ ~resp.ok) => \E g \in Forms : synThrew[g] # "none"

\* C3 witness: a successful response after the SS-4 fetch timed out and the
\* Articles fetch met a network error, both documents synthesized.
C3_Witness ==
    /\ handler = "PostRoot"
    /\ Responded
    /\ resp.ok
    /\ fetchOutcome["ss4"] = "timeout"
    /\ fetchOutcome["articles"] = "neterror"
    /\ resp.documents["ss4"].kind = "synthesized"
    /\ resp.documents["articles"].kind = "synthesized"

ValidIntake(in) == in.present /\ in.name # "none" /\ in.etype # "none"

Present(d) == d.kind # "absent"

\* The only calls that threw in this request, if any, are drawText calls (a
\* value the standard font cannot encode).
OnlyDrawThrew ==
    \A f \in Forms : tplThrew[f] \in {"none", "tpl_draw"} /\ synThrew[f] \in {"none", "syn_draw"}

\* No library call threw in this request.
NoLibraryThrow ==
    \A f \in Forms : tplThrew[f] = "none" /\ synThrew[f] \in {"none", "TypeError"}

\* C4 as stated: every response to a request with a valid intake (business
\* name and entity type present) holds documents.ss4, a complete PDF or
\* text artifact, whatever the template host did; stated here for the
\* requests in which nothing but a drawText call threw.
C4_SS4AlwaysPresent ==
    (Responded /\ ValidIntake(intake) /\ OnlyDrawThrew) =>
        /\ Present(resp.documents["ss4"])
        /\ resp.documents["ss4"].complete
        /\ resp.documents["ss4"].mime \in {"application/pdf", "text/plain"}

\* C5 as stated: a successful result never lacks the articles key, whatever
\* the entity type and the state are.
C5_ArticlesNeverOmitted ==
    (Responded /\ resp.ok) => Present(resp.documents["articles"])

\* C6 as stated: a request whose intake lacks the business name or the
\* entity type is answered ok:false with no documents, and no generation
\* stage was entered for it; stated here for the requests in which no
\* library call threw.
C6_InvalidIntakeRejected ==
    (Responded /\ ~ValidIntake(intake) /\ NoLibraryThrow) =>
        /\ ~resp.ok
        /\ \A f \in Forms : ~Present(resp.documents[f])
        /\ \A f \in Forms : trace[f] = <<>>

\* Rows that fit on a page: the rows drawn from RowStartY down to MinMargin.
Capacity(fn) ==
    ((RowStartY - MinMargin) \div (IF fn = "articles" THEN LineHeight ELSE EINLineHeight)) + 1

CeilDiv(a, b) == (a + b - 1) \div b

C8_FetchBoundedByTimeout == pc = "cfp_await" => ENABLED FetchSettle

RenderCalls == {"tpl_font", "tpl_draw", "tpl_save", "syn_font", "syn_draw", "syn_save"}

RenderFailure(f) == tplThrew[f] \in RenderCalls \/ synThrew[f] \in RenderCalls

\* C9 as stated: when a font embed, a draw or a save threw while
\* createFilledPDF rendered a form of a valid intake, the response is still ok:true, that form's document is the
\* text/plain placeholder, and the other form's document, if one was
\* produced, is returned as it was.
C9_RenderFailureDegrades ==
    (Responded /\ handler = "PostRoot" /\ ValidIntake(intake)) =>
        \A f \in Forms :
            RenderFailure(f) =>
                /\ resp.ok
                /\ resp.documents[f].mime = "text/plain"
                /\ \A g \in Forms \ {f} :
                       Present(documents[g]) => resp.documents[g] = documents[g]

Count(f, s) == Cardinality({k \in 1..Len(trace[f]) : trace[f][k] = s})

\* C11: within one request at most one template fetch is issued per form:
\* the fetch count of a form is 1 exactly when its pipeline entered
\* FETCH_TEMPLATE and 0 otherwise, FETCH_TEMPLATE is entered at most once,
\* a fetch settled as unavailable is followed at once by SYNTHESIZE, and a
\* fetch settled with a 2xx response is followed by nothing but the
\* template branch or the synthesizer.
C11_SingleFetch ==
    \A f \in Forms :
        /\ fetches[f] <= 1
        /\ fetches[f] = Count(f, "FETCH_TEMPLATE")
        /\ (fetchOutcome[f] \in Unavailable /\ FetchSettled(f)) =>
               /\ fetches[f] = 1
               /\ trace[f][3] = "SYNTHESIZE"
        /\ (fetchOutcome[f] = "ok" /\ FetchSettled(f)) => fetches[f] = 1

\* C11 witness: a finished request whose SS-4 fetch failed and whose
\* Articles fetch succeeded, one fetch each.
C11_Witness ==
    /\ Responded
    /\ fetchOutcome["ss4"] = "neterror"
    /\ fetchOutcome["articles"] = "ok"
    /\ fetches["ss4"] = 1
    /\ fetches["articles"] = 1

\* The rows of the document a handler generates for a form.
FormRows(h, f) ==
    IF h = "PostRoot" THEN InfoRows(f)
    ELSE IF h = "SubmitV1" THEN (IF f = "articles" THEN Sections ELSE FormFields)
    ELSE MockRows(f)

RowDrawn(d, i) == \E k \in 1..Len(d.rows) : d.rows[k].row = i

\* The rows of a document follow one another in label order, and on one
\* page at one line height: no gap is left where a row was skipped.
RowsInOrderNoGap(d) ==
    \A k \in 1..(Len(d.rows) - 1) :
        /\ d.rows[k].row < d.rows[k + 1].row
        /\ \A j \in 1..(Len(d.rows) - 1) :
               d.rows[k].y - d.rows[k + 1].y = d.rows[j].y - d.rows[j + 1].y

\* C12: in every synthesized document returned for a valid intake, a row
\* is drawn if and only if the value the code reads for it is non-empty
\* (a row whose value is absent is not drawn at all), and the drawn rows
\* keep the label order with no line left empty between them.
C12_RowsDrawnIffValue ==
    (Responded /\ resp.ok /\ ValidIntake(intake)) =>
        \A f \in Forms :
            resp.documents[f].kind = "synthesized" =>
                /\ \A i \in 1..Len(FormRows(handler, f)) :
                       RowDrawn(resp.documents[f], i)
                           <=> RowHasValue(FormRows(handler, f)[i], intake)
                /\ RowsInOrderNoGap(resp.documents[f])

\* C13: the two forms of a request are produced independently: when the
\* request has been answered, every document that was produced is in the
\* response, whatever happened to the other form; a form that failed is
\* only missing from the documents.  Stated for the requests that name the
\* business and in which no library call threw.
C13_PartialSuccess ==
    (Responded /\ NoLibraryThrow /\ intake.present /\ intake.name # "none") =>
        \A f \in Forms :
            Present(documents[f]) =>
                /\ resp.hasDocuments
                /\ resp.documents[f] = documents[f]

\* C14: generation is stateless and deterministic: a request served with
\* the template host unavailable and a working PDF library gets the
\* response (status, documents with their pages and rows) that any earlier
\* request of the same handler with the same intake got under the same
\* conditions, whatever requests were served before or in between.
C14_Deterministic ==
    (StubbedRun /\ prev.handler = handler /\ prev.intake = intake) =>
        resp = prev.resp

\* C14 witness: the third request repeats the first, a different request
\* having been served in between, and is answered with the same two
\* synthesized documents.
C14_Witness ==
    /\ StubbedRun
    /\ nreq = 3
    /\ handler = "PostRoot"
    /\ prev.handler = handler
    /\ prev.intake = intake
    /\ resp.ok
    /\ resp = prev.resp
    /\ \A f \in Forms : resp.documents[f].kind = "synthesized"

\* C15: for a valid intake the response reports failure (ok false, with
\* an error message and no documents) if and only if a call of the
\* from-scratch generator of some form threw; a failed fetch or a throw in
\* the template branch does not by itself make the response ok false.
C15_OnlySynthesisFatal ==
    (Responded /\ ValidIntake(intake)) =>
        /\ ~resp.ok <=> (\E f \in Forms : synThrew[f] # "none")
        /\ ~resp.ok => (resp.error # "none" /\ ~resp.hasDocuments)
        /\ resp.ok => resp.error = "none"

\* C15 witness: an ok response to a request in which the SS-4 template
\* branch threw and the Articles fetch failed.
C15_Witness ==
    /\ Responded
    /\ ValidIntake(intake)
    /\ resp.ok
    /\ tplThrew["ss4"] # "none"
    /\ fetchOutcome["articles"] \in Unavailable
    /\ FetchSettled("articles")

\* C15, the failing side: a 500 response to a valid intake after the
\* from-scratch generator threw.
C15_FatalReached ==
    /\ Responded
    /\ ValidIntake(intake)
    /\ ~resp.ok
    /\ \E f \in Forms : synThrew[f] # "none"

Protected == {"generate", "smartfile"}

CredentialsExact ==
    /\ adminKey # "unset"
    /\ gate.auth # NoHeader
    /\ gate.auth.head = "Bearer "
    /\ gate.auth.tail = adminKey

\* The parts of C16 that every application satisfies: a protected route
\* handler is reached only with the header "Bearer " + key and a configured
\* key; GET /health and GET /agent/health are reached whatever the header
\* and the key; with no key configured a request to any other path is
\* answered by the middleware (401, 500, or the CORS 200).
AccessRules ==
    /\ gate.verdict \in Protected => CredentialsExact
    /\ (gate.method = "GET" /\ IsHealthPath(gate.path)) => gate.verdict = "health"
    /\ (gate.app # "none" /\ adminKey = "unset" /\ ~IsHealthPath(gate.path)) =>
           gate.verdict \in {"401", "500", "cors200"}

\* C16 as stated: the access rules, and every OPTIONS request is answered
\* 200 by the CORS middleware without reaching a protected handler.
C16_AccessControl ==
    /\ AccessRules
    /\ gate.method = "OPTIONS" => gate.verdict = "cors200"

\* C16 amended: the access rules; in the applications that install the
\* CORS middleware every OPTIONS request is answered 200 by it; in the
\* first application of part_000, which installs none, an OPTIONS request
\* is answered 401 unless it carries the key or names a health path, and
\* then matches no route; in no application does it reach a protected
\* handler.
C16_AccessControlAmended ==
    /\ AccessRules
    /\ (gate.method = "OPTIONS" /\ HasCors(gate.app)) => gate.verdict = "cors200"
    /\ (gate.method = "OPTIONS" /\ gate.app = "PostRoot") =>
           /\ gate.verdict \in {"401", "unmatched"}
           /\ gate.verdict = "401"
                  <=> ~(CredentialsExact \/ IsHealthPath(gate.path))

\* C16 witness: an OPTIONS request without credentials to the first
\* application of part_000, answered 401.
C16_Witness ==
    /\ gate.app = "PostRoot"
    /\ gate.method = "OPTIONS"
    /\ gate.path = "/"
    /\ gate.auth = NoHeader
    /\ gate.verdict = "401"

\* C16, the admitted side: a generation handler reached with the exact
\* header.
C16_Admitted ==
    /\ gate.verdict = "generate"
    /\ CredentialsExact

\* C17: in createFilledPDF a throw at any call of the template branch
\* (reading the body, loading, embedding the font, drawing, saving) is
\* caught: the from-scratch document is started next, and the document
\* the function returns is the synthesized one; the handler answers 500
\* exactly when a call of the from-scratch code threw, and that response
\* has ok false and no documents.
C17_TemplateThrowCaught ==
    handler = "PostRoot" =>
        /\ \A f \in Forms :
               tplThrew[f] # "none" =>
                   /\ InSeq(TplSteps, tplThrew[f])
                   /\ "SYNTHESIZE" \in Stages(f)
                   /\ Present(documents[f]) => documents[f].kind = "synthesized"
                   /\ (Responded /\ resp.ok) =>
                          resp.documents[f].kind = "synthesized"
        /\ Responded =>
               /\ resp.status = 500 <=> (\E f \in Forms : synThrew[f] # "none")
               /\ resp.status = 500 => (~resp.ok /\ ~resp.hasDocuments)
               /\ resp.status # 500 => resp.ok

\* C17 witness: reading the body threw for the SS-4 and saving threw for
\* the Articles, and the response holds two synthesized documents.
C17_Witness ==
    /\ handler = "PostRoot"
    /\ Responded
    /\ resp.ok
    /\ tplThrew["ss4"] = "tpl_body"
    /\ tplThrew["articles"] = "tpl_save"
    /\ \A f \in Forms : resp.documents[f].kind = "synthesized"

\* C17, the propagating side: a throw of the from-scratch code after a
\* caught template throw, answered 500.
C17_Propagated ==
    /\ handler = "PostRoot"
    /\ resp.status = 500
    /\ tplThrew["ss4"] # "none"
    /\ synThrew["ss4"] # "none"

====
